---- MODULE Spec2Model ----
(***************************************************************************)
(* Playback-and-cue-synchronisation engine of OpenLightsCore.              *)
(*                                                                         *)
(* Threads: the UI (sender of AudioThreadActions), the worker thread of    *)
(* start_worker_thread, the light threads spawned by start_light_thread,   *)
(* and the audio backend that moves the sink position.                     *)
(*                                                                         *)
(* Time is in milliseconds.  A Song's f32 duration in seconds is held as   *)
(* an integer number of milliseconds; set_atomic_float / get_atomic_float  *)
(* are the truncating fixed-point conversions of the source, computed on   *)
(* exact rationals.                                                        *)
(*                                                                         *)
(* Every access to a lifecycle flag is one step.  All of them are          *)
(* Ordering::Relaxed: a store that depends on a load of the same thread    *)
(* follows it, but the two stores the light thread makes on its way out    *)
(* (active, then toggle) are not ordered with each other and take effect   *)
(* in either order.  One pass of a light thread through its reset check    *)
(* and its firing loop is one step.                                        *)
(*                                                                         *)
(* lights.rs is modelled as built for the target (not x86_64), where the   *)
(* actuator is interface_gpio and a reset sweeps all_off.                  *)
(***************************************************************************)
EXTENDS Integers, Sequences, FiniteSets, Bags, TLC

\* ---------------------------------------------------------------- bounds
MaxCmds  == 3      \* commands the UI sends in one run
MaxQueue == 2      \* commands in flight in the channel
Step     == 1000   \* milliseconds the audio backend advances per step

MaxThreads == 2    \* light threads (running or leaving) at one time
MaxSeek    == 2    \* seek targets tried: 0, 500, ... MaxSeek * 500 milliseconds

\* ------------------------------------------------------- program constants
FloatScale  == 100     \* set_atomic_float / get_atomic_float fixed point
MsPerSecond == 1000    \* pos / 1000
EndPercent  == 99      \* progress >= 0.99, in FloatScale units
U32Max      == 2147483647   \* stands for u32::MAX (the largest integer TLC holds)
NumPins     == 16      \* get_gpio_map: the output pins 0..15
RewindTime  == 0       \* Duration::ZERO, the only time the worker seeks to
I8Min       == -128    \* the least value of the AtomicI8 volume cell
I8Max       == 127     \* the greatest

\* ------------------------------------------------------------ environment
\* Songs on disk: path, duration (ms).
Song(p, d) == [path |-> p, duration |-> d]

\* The third playlist lives in a directory called "wav".
Playlists == << << Song(1, 2000), Song(2, 1500) >>, << Song(4, 1000) >>,
                << Song(3, 1000) >> >>

\* The text of a path, in pieces: directory, separator, stem, dot and
\* extension.
Path(dir, stem, ext) == << dir, "/", stem, ".", ext >>

\* The path text of each song (to_string_lossy of the PathBuf).
SongPaths ==
    [p \in {1, 2, 3, 4, 5} |->
        CASE p = 1 -> Path("pl1", "a", "wav")
          [] p = 2 -> Path("pl1", "b", "wav")
          [] p = 3 -> Path("wav", "c", "wav")
          [] p = 4 -> Path("pl2", "d", "wav")
          [] p = 5 -> Path("pl3", "e", "wav")]

\* A token of a light file: text that parses as an integer, or text that
\* does not.
Tok(n) == [ok |-> TRUE, n |-> n]

BadTok == [ok |-> FALSE, n |-> 0]

\* A channel entry of a light file: the key (comma separated tokens) and the
\* map from timestamp text to an i8.
Field(key, entries) == [key |-> key, entries |-> entries]

\* The light files on disk, by the number of their song; song 2 has none and
\* file 5 belongs to a song of no playlist.
\*   1: {"1,2": {"0": 1, "500": 0, "1000": 1}, "3": {"0": 2}}
\*   3: {"2": {"0": 1}}
\*   4: {"1": {"0": 1, "1s": 0}}        (a timestamp that is not a number)
\*   5: not a JSON object of objects
LightFiles ==
    [p \in {1, 3, 4, 5} |->
        CASE p = 1 -> [json |-> TRUE,
                       fields |-> << Field(<<Tok(1), Tok(2)>>,
                                           {<<Tok(0), 1>>, <<Tok(500), 0>>,
                                            <<Tok(1000), 1>>}),
                                     Field(<<Tok(3)>>, {<<Tok(0), 2>>}) >>]
          [] p = 3 -> [json |-> TRUE,
                       fields |-> << Field(<<Tok(2)>>, {<<Tok(0), 1>>}) >>]
          [] p = 4 -> [json |-> TRUE,
                       fields |-> << Field(<<Tok(1)>>,
                                           {<<Tok(0), 1>>, <<BadTok, 0>>}) >>]
          [] p = 5 -> [json |-> FALSE, fields |-> << >>]]

\* Where each light file is on disk: next to its song, under the song's
\* name with the extension json.
LightFilePaths ==
    [p \in DOMAIN LightFiles |->
        CASE p = 1 -> Path("pl1", "a", "json")
          [] p = 3 -> Path("wav", "c", "json")
          [] p = 4 -> Path("pl2", "d", "json")
          [] p = 5 -> Path("pl3", "e", "json")]

Actions == {"KillThread", "Pause", "Play", "Loop", "Volume", "Skip", "Rewind",
            "Shuffle", "SongOverride", "RequestSongVec", "LoadFromPlaylist",
            "Reset"}

VARIABLES
    audio_player,        \* the AudioPlayer struct (fields the worker owns/publishes)
    light_thread_active, \* Arc<AtomicBool> shared with the light threads
    light_thread_toggle,
    light_thread_reset,
    light_threads,       \* the bag of spawned light threads (see LightThread)
    volume,              \* Arc<AtomicI8> shared with the UI
    clicked_index,       \* Arc<AtomicUsize> shared with the UI
    receiver,            \* the command channel: messages in flight, oldest first
    ui_alive,            \* the UI still holds the Sender and the snapshot Receiver
    song_vec_cache,      \* the UI's Option<Vec<Song>>, and whether it waits in recv()
    song_vec_channel,    \* the snapshot channel: song vectors in flight, oldest first
    worker_pc,           \* position of the worker thread
    worker_action,       \* the `action` matched in this loop iteration, or "none"
    worker_ret,          \* who called prepare_song: "cmd", "seek" or "tick"
    worker_song,         \* prepare_song's local `song` (its path), 0 when none
    sent,                \* number of commands sent so far
    dispatched,          \* number of commands the worker received so far
    last_dispatched,     \* the sequence number of the last message the worker received
    tick_dispatched,     \* commands received in the current loop iteration
    killed               \* a KillThread message has been received

vars == << audio_player, light_thread_active, light_thread_toggle,
           light_thread_reset, light_threads, volume, clicked_index, receiver,
           ui_alive, song_vec_cache, song_vec_channel, worker_pc, worker_action,
           worker_ret, worker_song, sent, dispatched, last_dispatched,
           tick_dispatched, killed >>

\* ---------------------------------------------------------------- helpers
Min(a, b) == IF a < b THEN a ELSE b

Range(s) == {s[i] : i \in DOMAIN s}

Shuffles(s) ==
    {p \in [DOMAIN s -> Range(s)] : \A i, j \in DOMAIN s : p[i] = p[j] => i = j}

\* set_atomic_float(value): (value * 100.0) as u32, for value = num / den seconds
\* (a saturating cast: NaN is 0, +inf is u32::MAX).
set_atomic_float(num, den) ==
    IF den = 0
    THEN (IF num = 0 THEN 0 ELSE U32Max)
    ELSE Min((num * FloatScale) \div den, U32Max)

\* ----------------------------------------------------------------- lights
\* LightType: On, Off
light_type_of(light_type_pre) == IF light_type_pre = 1 THEN "On" ELSE "Off"

LightData(timestamp, light_type) ==
    [timestamp |-> timestamp, light_type |-> light_type]

\* parse_channels: the tokens that parse, in order.
parse_channels(key) ==
    LET ok == SelectSeq(key, LAMBDA t : t.ok)
    IN [i \in DOMAIN ok |-> ok[i].n]

\* A faulty sort: the latest event first.
sort_latest_first(data) ==
    CHOOSE v \in [1..Cardinality(data) -> data] :
        /\ \A i, j \in DOMAIN v : v[i] = v[j] => i = j
        /\ \A i, j \in DOMAIN v : i < j => v[i].timestamp >= v[j].timestamp

\* light_data_vec.sort_by_key(|ld| ld.timestamp)
sort_by_key(data) ==
    CHOOSE v \in [1..Cardinality(data) -> data] :
        /\ \A i, j \in DOMAIN v : v[i] = v[j] => i = j
        /\ \A i, j \in DOMAIN v : i < j => v[i].timestamp <= v[j].timestamp

ChannelData(field) ==
    [channels |-> parse_channels(field.key),
     data     |-> sort_by_key({LightData(e[1].n, light_type_of(e[2])) :
                                  e \in field.entries}),
     index    |-> 0]

\* str::replace(from, to): every piece of the text that is `from` becomes
\* `to`, wherever it stands.
replace(text, from, to) ==
    [i \in DOMAIN text |-> IF text[i] = from THEN to ELSE text[i]]

\* The path gather_light_data opens for a song: its path text with "wav"
\* replaced by "json".
path_string(song_path) ==
    IF song_path \in DOMAIN SongPaths
    THEN replace(SongPaths[song_path], "wav", "json")
    ELSE << >>

\* File::open(path_string): the light files at that path (none: Err).
open(path) == {f \in DOMAIN LightFiles : LightFilePaths[f] = path}

\* A lenient gather: a file that cannot be read as light data counts as no
\* light data, and an entry whose timestamp does not parse is left out.
gather_light_data_lenient(song_path) ==
    IF open(path_string(song_path)) = {}
       \/ \E f \in open(path_string(song_path)) : ~LightFiles[f].json
    THEN [ok |-> TRUE, data |-> << >>]
    ELSE LET file == LightFiles[CHOOSE f \in open(path_string(song_path)) : TRUE] IN
         [ok |-> TRUE,
          data |-> [i \in DOMAIN file.fields |->
                      ChannelData(Field(file.fields[i].key,
                                        {e \in file.fields[i].entries : e[1].ok}))]]

\* gather_light_data: no file gives an empty vector; a file that is not of
\* the expected shape, or holds a timestamp that is not an i32, panics
\* (unwrap); otherwise one ChannelData per entry of the file (in the order
\* the HashMap yields them: here the order of the file).
gather_light_data(song_path) ==
    IF open(path_string(song_path)) = {}
    THEN [ok |-> TRUE, data |-> << >>]
    ELSE LET file == LightFiles[CHOOSE f \in open(path_string(song_path)) : TRUE] IN
         IF \/ ~file.json
            \/ \E i \in DOMAIN file.fields :
                  \E e \in file.fields[i].entries : ~e[1].ok
         THEN [ok |-> FALSE, data |-> << >>]
         ELSE [ok |-> TRUE,
               data |-> [i \in DOMAIN file.fields |-> ChannelData(file.fields[i])]]

\* One call of the actuator (interface_gpio): the pin and the level, and the
\* event it comes from (its channel entry and timestamp; entry 0 for the
\* sweep of all_off, which comes from no event).
Actuation(channel, light_type, group, timestamp) ==
    [channel |-> channel, light_type |-> light_type, group |-> group,
     timestamp |-> timestamp]

\* all_off: every pin of the map is set low, in order.
all_off == [i \in 1..NumPins |-> Actuation(i - 1, "Off", 0, 0)]

\* A faulty test: the event at the cursor is taken whatever its time.
due_any_time(channel_data, position) ==
    channel_data.index < Len(channel_data.data)

\* lines 61-62: there is an event at the cursor and its time has come.
due(channel_data, position) ==
    /\ channel_data.index < Len(channel_data.data)
    /\ channel_data.data[channel_data.index + 1].timestamp <= position

\* lines 64-79: the event at the cursor is sent to every channel of the entry.
fire(channel_data, group) ==
    LET target_time == channel_data.data[channel_data.index + 1] IN
    [k \in DOMAIN channel_data.channels |->
        Actuation(channel_data.channels[k], target_time.light_type, group,
                  target_time.timestamp)]

\* A faulty advance: the cursor stays on the event that was fired.
advance_never(channel_data, position) == channel_data

\* A faulty advance: the cursor moves on by two.
advance_skipping(channel_data, position) ==
    IF due(channel_data, position)
    THEN [channel_data EXCEPT !.index = channel_data.index + 2]
    ELSE channel_data

\* line 80, under the conditions of lines 61-62.
advance(channel_data, position) ==
    IF due(channel_data, position)
    THEN [channel_data EXCEPT !.index = channel_data.index + 1]
    ELSE channel_data

\* lines 60-83: the loop over the channel entries, from entry `group` on.
RECURSIVE fire_due(_, _, _)
fire_due(light_data, position, group) ==
    IF group > Len(light_data) THEN << >>
    ELSE (IF due(light_data[group], position)
          THEN fire(light_data[group], group) ELSE << >>)
         \o fire_due(light_data, position, group + 1)

\* A faulty reset: the cursors stay where they are.
rewind_none(light_data) == light_data

\* lines 51-53: every cursor back to 0.
rewind(light_data) == [g \in DOMAIN light_data |-> [light_data[g] EXCEPT !.index = 0]]

\* One pass through lines 49-85 with the flag and the position it loads:
\* what it did (reset, the position read, the cursors it found, the cursors
\* the firing loop started from, the calls of the actuator in order) and the
\* light_data it leaves.
light_tick(light_data, reset, position) ==
    LET start == IF reset THEN rewind(light_data) ELSE light_data IN
    [reset      |-> reset,
     position   |-> position,
     before     |-> [g \in DOMAIN light_data |-> light_data[g].index],
     from       |-> [g \in DOMAIN start |-> start[g].index],
     acts       |-> (IF reset THEN all_off ELSE << >>)
                       \o fire_due(start, position, 1),
     light_data |-> [g \in DOMAIN start |-> advance(start[g], position)]]

\* no pass yet.
NoTick == [reset |-> FALSE, position |-> 0, before |-> << >>, from |-> << >>,
           acts |-> << >>, light_data |-> << >>]

\* the calls that come from events.
fired(acts) == SelectSeq(acts, LAMBDA a : a.group # 0)

\* A light thread: its position, the light_data it owns, the pass through
\* lines 49-85 it has just made (until it loads toggle again), and the calls
\* it made from events since it started or last rewound.
LightThread(light_data) ==
    [pc |-> "top", light_data |-> light_data, tick |-> NoTick, log |-> << >>]

\* ------------------------------------------------------------ AudioPlayer
AudioPlayerNew ==
    [ song_vec             |-> << >>,
      playing              |-> FALSE,
      song_loaded          |-> FALSE,
      song_duration        |-> 0,
      song_index           |-> 0,
      looping              |-> FALSE,
      millisecond_position |-> 0,
      progress             |-> 0,
      sink_len             |-> 0,      \* length of the source queued in the sink, 0 if none
      sink_pos             |-> 0,
      sink_paused          |-> FALSE,
      sink_volume          |-> 100 ]

sink_empty(ap) == ap.sink_len = 0 \/ ap.sink_pos >= ap.sink_len

\* get_current_song panics (unwrap on None) when the index is out of range.
has_current_song(ap) == ap.song_index < Len(ap.song_vec)

get_current_song(ap) == ap.song_vec[ap.song_index + 1]

\* prepare_song up to `self.song_loaded = true` (lines 95-102).
\* A faulty prepare_song: the sink keeps the position it had reached.
prepare_song_keeping_position(ap) ==
    LET song == get_current_song(ap) IN
    [ap EXCEPT !.sink_len = song.duration,
               !.sink_paused = TRUE,
               !.millisecond_position = 0,
               !.song_duration = set_atomic_float(song.duration, MsPerSecond),
               !.song_loaded = TRUE]

prepare_song(ap) ==
    LET song == get_current_song(ap) IN
    [ap EXCEPT !.sink_len = song.duration,
               !.sink_pos = 0,
               !.sink_paused = TRUE,
               !.millisecond_position = 0,
               !.song_duration = set_atomic_float(song.duration, MsPerSecond),
               !.song_loaded = TRUE]

\* A faulty play: it also takes the sink back to the start.
play_restart(ap) ==
    [ap EXCEPT !.sink_paused = FALSE, !.playing = TRUE, !.sink_pos = 0]

\* play when the song is loaded.
play_loaded(ap) == [ap EXCEPT !.sink_paused = FALSE, !.playing = TRUE]

\* A faulty pause: it also marks the song not loaded.
pause_unloading(ap) ==
    [ap EXCEPT !.sink_paused = TRUE, !.playing = FALSE, !.song_loaded = FALSE]

pause(ap) == [ap EXCEPT !.sink_paused = TRUE, !.playing = FALSE]

\* A faulty lookup: the position of the last song of the queue.
get_song_index_last(ap, song) == Len(ap.song_vec) - 1

\* get_song_index: `position(..)` is Some, so that its unwrap does not panic.
has_song_index(ap, song) ==
    \E i \in DOMAIN ap.song_vec : ap.song_vec[i].path = song.path

get_song_index(ap, song) ==
    (CHOOSE i \in DOMAIN ap.song_vec :
        /\ ap.song_vec[i].path = song.path
        /\ \A j \in DOMAIN ap.song_vec : ap.song_vec[j].path = song.path => i <= j) - 1

\* shuffle, song_override, next_song, set_position up to their call of play().
shuffle(ap, perm) ==
    [ap EXCEPT !.song_vec = perm, !.song_index = 0, !.song_loaded = FALSE]

song_override(ap, song) ==
    [pause(ap) EXCEPT !.song_index = get_song_index(ap, song),
                      !.song_loaded = FALSE]

\* song_override with the unwrap of get_song_index: without the song in the
\* queue it panics after pause(), before the store of song_index.
try_song_override(ap, song) ==
    IF has_song_index(ap, song)
    THEN [ok |-> TRUE, ap |-> song_override(ap, song)]
    ELSE [ok |-> FALSE, ap |-> pause(ap)]

\* The values next_song stores to the shared song_index cell, in program
\* order: new_index, and then 0 when new_index is past the end.
next_song_stores(ap) ==
    LET new_index == ap.song_index + 1 IN
    IF new_index >= Len(ap.song_vec) THEN << new_index, 0 >> ELSE << new_index >>

\* A faulty next_song: no wraparound.
next_song_no_wrap(ap) ==
    [pause(ap) EXCEPT !.song_index = ap.song_index + 1, !.song_loaded = FALSE]

next_song(ap) ==
    LET stores == next_song_stores(ap) IN
    [pause(ap) EXCEPT !.song_index = stores[Len(stores)],
                      !.song_loaded = FALSE]

set_position(ap, time) ==
    [pause(ap) EXCEPT !.sink_pos = IF sink_empty(ap) THEN ap.sink_pos ELSE time]

\* A faulty tail: the position is left for the next tick to publish.
set_position_tail_stale(ap, time) == ap

\* the tail of set_position, after play() returned (line 173).
set_position_tail(ap, time) == [ap EXCEPT !.millisecond_position = time]

\* lines 174-178: the reset request after set_position(time).
\* A faulty seek: the reset is requested whatever the time.
set_position_reset_always(reset, time) == TRUE

set_position_reset(reset, time) == IF time = 0 THEN TRUE ELSE reset

toggle_looping(ap) == [ap EXCEPT !.looping = ~ap.looping]

set_volume(ap, new_volume) == [ap EXCEPT !.sink_volume = new_volume]

\* A faulty load: it also marks the player not-loaded, without pausing it.
load_songs_unloading(ap, playlist) ==
    [ap EXCEPT !.song_vec = playlist, !.song_loaded = FALSE]

load_songs_from_playlist(ap, playlist) == [ap EXCEPT !.song_vec = playlist]

\* A faulty update: the seconds are rounded up.
update_position_rounding_up(ap) ==
    LET pos == ap.sink_pos
        seconds == (pos + MsPerSecond - 1) \div MsPerSecond
    IN [ap EXCEPT !.millisecond_position = pos,
                  !.progress = set_atomic_float(seconds * FloatScale, ap.song_duration)]

\* the position update of a worker iteration (lines 253-256).
update_position(ap) ==
    LET pos == ap.sink_pos
        seconds == pos \div MsPerSecond
    IN [ap EXCEPT !.millisecond_position = pos,
                  !.progress = set_atomic_float(seconds * FloatScale, ap.song_duration)]

song_finished(ap) == ap.progress >= EndPercent /\ sink_empty(ap)

\* --------------------------------------------------------- the UI's cache
\* song_vec_cache: None, None while the UI waits in song_vec_receiver.recv(),
\* or Some(vec).
NoCache == [state |-> "none", vec |-> << >>]

Waiting == [state |-> "waiting", vec |-> << >>]

Cached(song_vec) == [state |-> "some", vec |-> song_vec]

\* ------------------------------------------------------------------- Init
Init ==
    /\ audio_player = AudioPlayerNew
    /\ light_thread_active = FALSE
    /\ light_thread_toggle = FALSE
    /\ light_thread_reset = FALSE
    /\ light_threads = EmptyBag
    /\ volume = 100
    /\ clicked_index = 0
    /\ receiver = << >>
    /\ ui_alive = TRUE
    /\ song_vec_cache = NoCache
    /\ song_vec_channel = << >>
    /\ worker_pc = "recv"
    /\ worker_action = "none"
    /\ worker_ret = "none"
    /\ worker_song = 0
    /\ sent = 0
    /\ dispatched = 0
    /\ last_dispatched = 0
    /\ tick_dispatched = 0
    /\ killed = FALSE

lights == << light_thread_active, light_thread_toggle, light_thread_reset,
             light_threads >>
channel == << receiver, sent, dispatched, last_dispatched, tick_dispatched,
             worker_action >>
worker_locals == << worker_ret, worker_song >>
ui_side == << ui_alive, song_vec_cache, song_vec_channel >>

WorkerRunning == worker_pc \notin {"exited", "panicked"}

\* --------------------------------------------------------------------- UI
\* The UI thread is inside song_vec_receiver.recv() (app.rs line 260).
UIBlocked == song_vec_cache.state = "waiting"

\* The worker holds the lock of the AudioPlayer: from the lock() of the command
\* match to the end of the handler, prepare_song and its wait loop included.
MutexHeld == worker_pc \in {"kill", "kill_store", "wait", "arm", "spawn", "resume"}

\* song_vec_cache after the click that sends `a`: the playlist row and the
\* shuffle button clear it, the jukebox screen asks for a new one when it is None.
cache_after_send(a, cache) ==
    IF a \in {"LoadFromPlaylist", "Shuffle"} THEN NoCache
    ELSE IF a = "RequestSongVec" THEN Waiting
    ELSE cache

\* self.messenger.send(action), the UI sending at most `max` commands.
UISendUpTo(a, max) ==
    /\ ui_alive
    /\ ~UIBlocked
    /\ a = "RequestSongVec" => song_vec_cache.state = "none"
    /\ WorkerRunning
    /\ sent < max
    /\ Len(receiver) < MaxQueue
    /\ receiver' = Append(receiver, [action |-> a, seq |-> sent + 1])
    /\ sent' = sent + 1
    /\ song_vec_cache' = cache_after_send(a, song_vec_cache)
    /\ UNCHANGED << audio_player, lights, volume, clicked_index, ui_alive,
                    song_vec_channel, worker_pc, worker_locals, dispatched,
                    last_dispatched, tick_dispatched, worker_action, killed >>

UISend(a) == UISendUpTo(a, MaxCmds)

\* self.song_vec_receiver.recv() returns the snapshot the worker sent.
UIRecv ==
    /\ ui_alive
    /\ UIBlocked
    /\ song_vec_channel # << >>
    /\ song_vec_cache' = Cached(Head(song_vec_channel))
    /\ song_vec_channel' = Tail(song_vec_channel)
    /\ UNCHANGED << audio_player, lights, volume, clicked_index, channel,
                    ui_alive, worker_pc, worker_locals, killed >>

\* recv() returns Err once the worker thread (and its Sender) is gone:
\* unwrap_or_else(|_| Vec::new()).
UIRecvErr ==
    /\ ui_alive
    /\ UIBlocked
    /\ song_vec_channel = << >>
    /\ ~WorkerRunning
    /\ song_vec_cache' = Cached(<< >>)
    /\ UNCHANGED << audio_player, lights, volume, clicked_index, channel,
                    ui_alive, song_vec_channel, worker_pc, worker_locals, killed >>

\* centered_song_progress_display: lock the AudioPlayer, clone the handles of
\* progress, millisecond_position and song_duration, unlock, load them.
UIRead ==
    /\ ui_alive
    /\ ~UIBlocked
    /\ ~MutexHeld
    /\ UNCHANGED vars

\* self.clicked_index.store(index): a row of the playlist or song list.
UISelect(index) ==
    /\ ui_alive
    /\ ~UIBlocked
    /\ clicked_index # index
    /\ clicked_index' = index
    /\ UNCHANGED << audio_player, lights, volume, channel, ui_side, worker_pc,
                    worker_locals, killed >>

\* The application exits: the Sender and the snapshot Receiver are dropped.
UIClose ==
    /\ ui_alive
    /\ ~UIBlocked
    /\ ui_alive' = FALSE
    /\ UNCHANGED << audio_player, lights, volume, clicked_index, channel,
                    song_vec_cache, song_vec_channel, worker_pc, worker_locals,
                    killed >>

\* ----------------------------------------------------------------- worker
\* receiver.try_recv(): the message taken and what stays in the channel.
\* A faulty receive: it takes the newest message.
try_recv_newest(q) == q[Len(q)]

try_recv(q) == Head(q)

after_recv(q) == Tail(q)

\* where the worker goes after the match on the action (line 247 -> 250).
after_dispatch == "update"

\* `if let Ok(action) = receiver.try_recv()` with a message in the channel.
Receive(a) ==
    /\ worker_pc = "recv"
    /\ receiver # << >>
    /\ try_recv(receiver).action = a
    /\ receiver' = after_recv(receiver)
    /\ dispatched' = dispatched + 1
    /\ last_dispatched' = try_recv(receiver).seq
    /\ tick_dispatched' = tick_dispatched + 1
    /\ worker_action' = a
    /\ UNCHANGED sent

\* try_recv returned Err (Empty or Disconnected): nothing is dispatched.
WorkerRecvNone ==
    /\ worker_pc = "recv"
    /\ receiver = << >>
    /\ worker_pc' = "update"
    /\ UNCHANGED << audio_player, lights, volume, clicked_index, channel,
                    ui_side, worker_locals, killed >>

\* The end of one loop iteration (thread::sleep) when reached from `from`.
EndOf(from) == IF from = "tick" THEN "recv" ELSE after_dispatch

\* self.play() on the player state `pre`, called from `from`.
\* Loaded: resume the sink.  Not loaded: prepare_song, which panics without a
\* current song and otherwise goes on to kill_light_thread.
Play(pre, from) ==
    IF pre.song_loaded
    THEN /\ audio_player' = IF from = "seek"
                            THEN set_position_tail(play_loaded(pre), RewindTime)
                            ELSE play_loaded(pre)
         /\ light_thread_reset' =
               IF from = "seek"
               THEN set_position_reset(light_thread_reset, RewindTime)
               ELSE light_thread_reset
         /\ worker_pc' = EndOf(from)
         /\ UNCHANGED worker_locals
    ELSE IF ~has_current_song(pre)
    THEN /\ audio_player' = pre
         /\ worker_pc' = "panicked"
         /\ UNCHANGED << light_thread_reset, worker_locals >>
    ELSE /\ audio_player' = prepare_song(pre)
         /\ worker_pc' = "kill"
         /\ worker_ret' = from
         /\ worker_song' = get_current_song(pre).path
         /\ UNCHANGED light_thread_reset

\* self.prepare_song() called directly (loop replay).
Prepare(pre, from) ==
    IF ~has_current_song(pre)
    THEN /\ audio_player' = pre
         /\ worker_pc' = "panicked"
         /\ UNCHANGED << light_thread_reset, worker_locals >>
    ELSE /\ audio_player' = prepare_song(pre)
         /\ worker_pc' = "kill"
         /\ worker_ret' = from
         /\ worker_song' = get_current_song(pre).path
         /\ UNCHANGED light_thread_reset

Panic ==
    /\ worker_pc' = "panicked"
    /\ UNCHANGED << audio_player, light_thread_reset, worker_locals >>

Others == << light_thread_active, light_thread_toggle, light_threads, volume, ui_side >>

WorkerPlay ==
    /\ Receive("Play")
    /\ Play(audio_player, "cmd")
    /\ UNCHANGED << Others, clicked_index, killed >>

WorkerPause ==
    /\ Receive("Pause")
    /\ audio_player' = pause(audio_player)
    /\ worker_pc' = after_dispatch
    /\ UNCHANGED << Others, clicked_index, killed, light_thread_reset, worker_locals >>

WorkerKillThread ==
    /\ Receive("KillThread")
    /\ worker_pc' = "exited"
    /\ killed' = TRUE
    /\ UNCHANGED << Others, clicked_index, audio_player, light_thread_reset,
                    worker_locals >>

WorkerSkip ==
    /\ Receive("Skip")
    /\ Play(next_song(audio_player), "cmd")
    /\ UNCHANGED << Others, clicked_index, killed >>

WorkerLoop ==
    /\ Receive("Loop")
    /\ audio_player' = toggle_looping(audio_player)
    /\ worker_pc' = after_dispatch
    /\ UNCHANGED << Others, clicked_index, killed, light_thread_reset, worker_locals >>

WorkerVolume ==
    /\ Receive("Volume")
    /\ audio_player' = set_volume(audio_player, volume)
    /\ worker_pc' = after_dispatch
    /\ UNCHANGED << Others, clicked_index, killed, light_thread_reset, worker_locals >>

WorkerRewind ==
    /\ Receive("Rewind")
    /\ Play(set_position(audio_player, RewindTime), "seek")
    /\ UNCHANGED << Others, clicked_index, killed >>

WorkerShuffle ==
    /\ Receive("Shuffle")
    /\ \E perm \in Shuffles(audio_player.song_vec) :
          Play(shuffle(audio_player, perm), "cmd")
    /\ UNCHANGED << Others, clicked_index, killed >>

WorkerSongOverride ==
    /\ Receive("SongOverride")
    /\ IF clicked_index < Len(audio_player.song_vec)
       THEN LET r == try_song_override(audio_player,
                                       audio_player.song_vec[clicked_index + 1])
            IN IF r.ok
               THEN Play(r.ap, "cmd")
               ELSE /\ audio_player' = r.ap
                    /\ worker_pc' = "panicked"
                    /\ UNCHANGED << light_thread_reset, worker_locals >>
       ELSE Panic
    /\ UNCHANGED << Others, clicked_index, killed >>

\* A faulty snapshot: the vector sent is empty.
snapshot_empty(ap) == << >>

\* song_vec.clone()
snapshot(ap) == ap.song_vec

\* song_vec_sender.send(..).unwrap() panics once the UI dropped its Receiver.
WorkerRequestSongVec ==
    /\ Receive("RequestSongVec")
    /\ IF ui_alive
       THEN /\ song_vec_channel' = Append(song_vec_channel, snapshot(audio_player))
            /\ worker_pc' = after_dispatch
       ELSE /\ worker_pc' = "panicked"
            /\ UNCHANGED song_vec_channel
    /\ UNCHANGED << light_thread_active, light_thread_toggle, light_threads,
                    volume, ui_alive, song_vec_cache, clicked_index, killed,
                    audio_player, light_thread_reset, worker_locals >>

WorkerLoadFromPlaylist ==
    /\ Receive("LoadFromPlaylist")
    /\ IF clicked_index < Len(Playlists)
       THEN /\ audio_player' =
                  load_songs_from_playlist(audio_player, Playlists[clicked_index + 1])
            /\ clicked_index' = 0
            /\ worker_pc' = after_dispatch
       ELSE /\ worker_pc' = "panicked"
            /\ UNCHANGED << audio_player, clicked_index >>
    /\ UNCHANGED << Others, killed, light_thread_reset, worker_locals >>

\* The match of start_worker_thread has no arm for Reset.
WorkerReset ==
    /\ Receive("Reset")
    /\ worker_pc' = after_dispatch
    /\ UNCHANGED << Others, clicked_index, killed, audio_player,
                    light_thread_reset, worker_locals >>

\* Lines 250-270: publish the position, detect the end of the song, sleep.
\* A faulty tick: the position is updated whether playing or not.
tick_updates_always(ap) == TRUE

\* The tick updates the position and looks for the end of the song only
\* if playing.
tick_updates(ap) == ap.playing

WorkerUpdate ==
    /\ worker_pc = "update"
    /\ tick_dispatched' = 0
    /\ worker_action' = "none"
    /\ IF ~tick_updates(audio_player)
       THEN /\ worker_pc' = "recv"
            /\ UNCHANGED << audio_player, light_thread_reset, worker_locals >>
       ELSE LET upd == update_position(audio_player) IN
            IF song_finished(upd)
            THEN IF upd.looping
                 THEN Prepare(upd, "tick")
                 ELSE Play(next_song(upd), "tick")
            ELSE /\ audio_player' = upd
                 /\ worker_pc' = "recv"
                 /\ UNCHANGED << light_thread_reset, worker_locals >>
    /\ UNCHANGED << Others, clicked_index, killed, receiver, sent, dispatched,
                    last_dispatched >>

\* A faulty start: it waits and spawns whatever the light data.
after_kill_always(song_path) == "wait"

\* kill_light_thread, line 108: load light_thread_active.
\* start_light_thread, lines 34-36: gather the light data of the song.
after_kill(song_path) ==
    LET light_data == gather_light_data(song_path) IN
    IF ~light_data.ok THEN "panicked"
    ELSE IF light_data.data # << >> THEN "wait" ELSE "resume"

WorkerKillLoad ==
    /\ worker_pc = "kill"
    /\ worker_pc' = IF light_thread_active THEN "kill_store"
                    ELSE after_kill(worker_song)
    /\ UNCHANGED << audio_player, lights, volume, clicked_index, channel,
                    ui_side, worker_locals, killed >>

\* kill_light_thread, line 109: store light_thread_toggle.
WorkerKillStore ==
    /\ worker_pc = "kill_store"
    /\ light_thread_toggle' = TRUE
    /\ worker_pc' = after_kill(worker_song)
    /\ UNCHANGED << audio_player, light_thread_active, light_thread_reset,
                    light_threads, volume, clicked_index, channel,
                    ui_side, worker_locals, killed >>

\* start_light_thread, lines 37-40: leave the loop once toggle reads false.
wait_over(toggle) == ~toggle

WorkerWait ==
    /\ worker_pc = "wait"
    /\ wait_over(light_thread_toggle)
    /\ worker_pc' = "arm"
    /\ UNCHANGED << audio_player, lights, volume, clicked_index, channel,
                    ui_side, worker_locals, killed >>

\* start_light_thread, line 42.
WorkerArm ==
    /\ worker_pc = "arm"
    /\ light_thread_active' = TRUE
    /\ worker_pc' = "spawn"
    /\ UNCHANGED << audio_player, light_thread_toggle, light_thread_reset,
                    light_threads, volume, clicked_index, channel,
                    ui_side, worker_locals, killed >>

\* start_light_thread, line 43: thread::spawn.
WorkerSpawn ==
    /\ worker_pc = "spawn"
    /\ BagCardinality(light_threads) < MaxThreads
    /\ light_threads' =
          light_threads (+) SetToBag({LightThread(gather_light_data(worker_song).data)})
    /\ worker_pc' = "resume"
    /\ UNCHANGED << audio_player, light_thread_active, light_thread_toggle,
                    light_thread_reset, volume, clicked_index,
                    channel, ui_side, worker_locals, killed >>

\* prepare_song returned: the caller's play(), and the tail of set_position.
WorkerResume ==
    /\ worker_pc = "resume"
    /\ audio_player' = IF worker_ret = "seek"
                       THEN set_position_tail(play_loaded(audio_player), RewindTime)
                       ELSE play_loaded(audio_player)
    /\ light_thread_reset' =
          IF worker_ret = "seek"
          THEN set_position_reset(light_thread_reset, RewindTime)
          ELSE light_thread_reset
    /\ worker_pc' = EndOf(worker_ret)
    /\ worker_ret' = "none"
    /\ worker_song' = 0
    /\ UNCHANGED << light_thread_active, light_thread_toggle, light_threads,
                    volume, clicked_index, channel, ui_side, killed >>

\* ----------------------------------------------------------- light thread
Rest == << audio_player, volume, clicked_index, channel, ui_side, worker_pc,
           worker_locals, killed >>

\* A light thread `t` goes on as `u`, or ends.
Moved(t, u) == (light_threads (-) SetToBag({t})) (+) SetToBag({u})

Ended(t) == light_threads (-) SetToBag({t})

\* the light threads at position `pc`.
At(pc) == {t \in BagToSet(light_threads) : t.pc = pc}

\* A light thread that does not look at the stop request.
on_toggle_ignored(toggle) == "body"

\* line 44: where the loop goes on the value of toggle it loaded.
on_toggle(toggle) == IF toggle THEN "deactivate" ELSE "body"

\* line 44: load toggle.
LightCheck ==
    \E t \in At("top") :
        /\ light_threads' =
              Moved(t, [t EXCEPT !.pc = on_toggle(light_thread_toggle),
                                 !.tick = NoTick])
        /\ UNCHANGED << Rest, light_thread_active, light_thread_toggle,
                        light_thread_reset >>

\* line 45: active.store(false) takes effect first.
LightDeactivate ==
    \E t \in At("deactivate") :
        /\ light_thread_active' = FALSE
        /\ light_threads' = Moved(t, [t EXCEPT !.pc = "untoggle"])
        /\ UNCHANGED << Rest, light_thread_toggle, light_thread_reset >>

\* lines 46-47: toggle.store(false); break.
LightUntoggle ==
    \E t \in At("untoggle") :
        /\ light_thread_toggle' = FALSE
        /\ light_threads' = Ended(t)
        /\ UNCHANGED << Rest, light_thread_active, light_thread_reset >>

\* line 46: toggle.store(false) takes effect before the store of line 45
\* (both are Relaxed stores to different atomics).
LightUntoggleEarly ==
    \E t \in At("deactivate") :
        /\ light_thread_toggle' = FALSE
        /\ light_threads' = Moved(t, [t EXCEPT !.pc = "deactivate_late"])
        /\ UNCHANGED << Rest, light_thread_active, light_thread_reset >>

\* line 45: active.store(false) takes effect after that of line 46; the
\* thread has left its loop.
LightDeactivateLate ==
    \E t \in At("deactivate_late") :
        /\ light_thread_active' = FALSE
        /\ light_threads' = Ended(t)
        /\ UNCHANGED << Rest, light_thread_toggle, light_thread_reset >>

\* lines 49-85: the reset check, the due events, the sleep.
LightBody ==
    \E t \in At("body") :
        LET tick == light_tick(t.light_data, light_thread_reset,
                               audio_player.millisecond_position)
        IN /\ light_thread_reset' = FALSE
           /\ light_threads' =
                 Moved(t, [pc         |-> "top",
                           light_data |-> tick.light_data,
                           tick       |-> tick,
                           log        |-> (IF tick.reset THEN << >> ELSE t.log)
                                             \o fired(tick.acts)])
           /\ UNCHANGED << Rest, light_thread_active, light_thread_toggle >>

\* ------------------------------------------------------------ audio backend
\* The sink plays the queued source: its position moves on until the source ends.
AudioAdvance ==
    /\ ~audio_player.sink_paused
    /\ ~sink_empty(audio_player)
    /\ audio_player' = [audio_player EXCEPT !.sink_pos =
                           Min(audio_player.sink_pos + Step, audio_player.sink_len)]
    /\ UNCHANGED << lights, volume, clicked_index, channel, ui_side, worker_pc,
                    worker_locals, killed >>

\* ------------------------------------------------------------------- Next
UI ==
    \/ \E a \in Actions : UISend(a)
    \/ \E index \in 0..1 : UISelect(index)
    \/ UIRecv
    \/ UIRecvErr
    \/ UIRead
    \/ UIClose

Worker ==
    \/ WorkerRecvNone
    \/ WorkerPlay
    \/ WorkerPause
    \/ WorkerKillThread
    \/ WorkerSkip
    \/ WorkerLoop
    \/ WorkerVolume
    \/ WorkerRewind
    \/ WorkerShuffle
    \/ WorkerSongOverride
    \/ WorkerRequestSongVec
    \/ WorkerLoadFromPlaylist
    \/ WorkerReset
    \/ WorkerUpdate
    \/ WorkerKillLoad
    \/ WorkerKillStore
    \/ WorkerWait
    \/ WorkerArm
    \/ WorkerSpawn
    \/ WorkerResume

\* the light thread with its exit stores taking effect in program order.
LightInOrder ==
    \/ LightCheck
    \/ LightDeactivate
    \/ LightUntoggle
    \/ LightBody

Light ==
    \/ LightInOrder
    \/ LightUntoggleEarly
    \/ LightDeactivateLate

Next == UI \/ Worker \/ Light \/ AudioAdvance

Spec == Init /\ [][Next]_vars

\* The same program with every store taking effect in program order.
NextInOrder == UI \/ Worker \/ LightInOrder \/ AudioAdvance

SpecInOrder == Init /\ [][NextInOrder]_vars

\* The same program with a user who only clicks the first playlist row and
\* the shuffle button, one click more than in Spec.
WorkerShuffling ==
    \/ WorkerRecvNone
    \/ WorkerShuffle
    \/ WorkerLoadFromPlaylist
    \/ WorkerUpdate
    \/ WorkerKillLoad
    \/ WorkerKillStore
    \/ WorkerWait
    \/ WorkerArm
    \/ WorkerSpawn
    \/ WorkerResume

NextShuffle ==
    \/ \E a \in {"LoadFromPlaylist", "Shuffle"} : UISendUpTo(a, MaxCmds + 1)
    \/ WorkerShuffling
    \/ Light
    \/ AudioAdvance

SpecShuffle == Init /\ [][NextShuffle]_vars

\* The same program with a user who only clicks the first playlist row and
\* the play / pause button, one click more than in Spec.
WorkerPausing ==
    \/ WorkerRecvNone
    \/ WorkerPlay
    \/ WorkerPause
    \/ WorkerLoadFromPlaylist
    \/ WorkerUpdate
    \/ WorkerKillLoad
    \/ WorkerKillStore
    \/ WorkerWait
    \/ WorkerArm
    \/ WorkerSpawn
    \/ WorkerResume

NextPause ==
    \/ \E a \in {"LoadFromPlaylist", "Play", "Pause"} : UISendUpTo(a, MaxCmds + 1)
    \/ WorkerPausing
    \/ Light
    \/ AudioAdvance

SpecPause == Init /\ [][NextPause]_vars

\* A user who may also pick the third playlist, and only loads and plays.
WorkerLoading ==
    \/ WorkerRecvNone
    \/ WorkerPlay
    \/ WorkerLoadFromPlaylist
    \/ WorkerUpdate
    \/ WorkerKillLoad
    \/ WorkerKillStore
    \/ WorkerWait
    \/ WorkerArm
    \/ WorkerSpawn
    \/ WorkerResume

NextPath ==
    \/ \E a \in {"LoadFromPlaylist", "Play"} : UISend(a)
    \/ \E index \in DOMAIN Playlists : UISelect(index - 1)
    \/ WorkerLoading
    \/ Light
    \/ AudioAdvance

SpecPath == Init /\ [][NextPath]_vars

\* A click on a row or a drag of the slider, as one handler: the cell is
\* written and the command sent.  The message is tagged with what the cells
\* held when it was sent (sel, vol), which the program does not send.
UIClick(a, index, slider_percent) ==
    /\ ui_alive
    /\ ~UIBlocked
    /\ WorkerRunning
    /\ sent < MaxCmds
    /\ Len(receiver) < MaxQueue
    /\ clicked_index' = IF a = "Volume" THEN clicked_index ELSE index
    /\ volume' = IF a = "Volume" THEN slider_percent ELSE volume
    /\ receiver' = Append(receiver, [action |-> a, seq |-> sent + 1,
                                     sel |-> clicked_index', vol |-> volume'])
    /\ sent' = sent + 1
    /\ song_vec_cache' = cache_after_send(a, song_vec_cache)
    /\ UNCHANGED << audio_player, lights, ui_alive, song_vec_channel, worker_pc,
                    worker_locals, dispatched, last_dispatched, tick_dispatched,
                    worker_action, killed >>

\* the positions the slider is dragged to.
SliderStops == {0, FloatScale}

WorkerClicked ==
    \/ WorkerRecvNone
    \/ WorkerVolume
    \/ WorkerSongOverride
    \/ WorkerLoadFromPlaylist
    \/ WorkerUpdate
    \/ WorkerKillLoad
    \/ WorkerKillStore
    \/ WorkerWait
    \/ WorkerArm
    \/ WorkerSpawn
    \/ WorkerResume

NextClick ==
    \/ \E a \in {"LoadFromPlaylist", "SongOverride"} :
          \E index \in 0..1 : UIClick(a, index, volume)
    \/ \E slider_percent \in SliderStops : UIClick("Volume", clicked_index, slider_percent)
    \/ WorkerClicked
    \/ Light
    \/ AudioAdvance

SpecClick == Init /\ [][NextClick]_vars

\* A user who only loads, plays, pauses and rewinds, with one more command.
WorkerRewinding ==
    \/ WorkerRecvNone
    \/ WorkerPlay
    \/ WorkerPause
    \/ WorkerRewind
    \/ WorkerLoadFromPlaylist
    \/ WorkerUpdate
    \/ WorkerKillLoad
    \/ WorkerKillStore
    \/ WorkerWait
    \/ WorkerArm
    \/ WorkerSpawn
    \/ WorkerResume

NextRewind ==
    \/ \E a \in {"LoadFromPlaylist", "Play", "Pause", "Rewind"} :
          UISendUpTo(a, MaxCmds + 1)
    \/ WorkerRewinding
    \/ Light
    \/ AudioAdvance

SpecRewind == Init /\ [][NextRewind]_vars

\* the times set_position is tried with.
SeekTimes == {i * 500 : i \in 0..MaxSeek}

\* set_position called with a time other than zero, on a loaded song: the
\* Rewind arm with another argument.
WorkerSeek(time) ==
    /\ Receive("Rewind")
    /\ audio_player.song_loaded
    /\ time # RewindTime
    /\ audio_player' = set_position_tail(play_loaded(set_position(audio_player, time)), time)
    /\ light_thread_reset' = set_position_reset(light_thread_reset, time)
    /\ worker_pc' = after_dispatch
    /\ UNCHANGED << Others, clicked_index, killed, worker_locals >>

\* A user who only loads, plays and seeks, to the start or elsewhere.
WorkerSeeking ==
    \/ WorkerRecvNone
    \/ WorkerPlay
    \/ WorkerRewind
    \/ \E time \in SeekTimes : WorkerSeek(time)
    \/ WorkerLoadFromPlaylist
    \/ WorkerUpdate
    \/ WorkerKillLoad
    \/ WorkerKillStore
    \/ WorkerWait
    \/ WorkerArm
    \/ WorkerSpawn
    \/ WorkerResume

NextSeek ==
    \/ \E a \in {"LoadFromPlaylist", "Play", "Rewind"} : UISend(a)
    \/ WorkerSeeking
    \/ Light
    \/ AudioAdvance

SpecSeek == Init /\ [][NextSeek]_vars

\* The player constructed on a volume cell of any content (AudioPlayer::new
\* is handed the cell), with a user who only releases the volume slider
\* where it is.
VolumeCell == {I8Min, -1, 0, 50, FloatScale, I8Max}

InitVolume ==
    /\ audio_player = AudioPlayerNew
    /\ light_thread_active = FALSE
    /\ light_thread_toggle = FALSE
    /\ light_thread_reset = FALSE
    /\ light_threads = EmptyBag
    /\ volume \in VolumeCell
    /\ clicked_index = 0
    /\ receiver = << >>
    /\ ui_alive = TRUE
    /\ song_vec_cache = NoCache
    /\ song_vec_channel = << >>
    /\ worker_pc = "recv"
    /\ worker_action = "none"
    /\ worker_ret = "none"
    /\ worker_song = 0
    /\ sent = 0
    /\ dispatched = 0
    /\ last_dispatched = 0
    /\ tick_dispatched = 0
    /\ killed = FALSE

NextVolume ==
    \/ UISendUpTo("Volume", MaxCmds)
    \/ UIClose
    \/ WorkerRecvNone
    \/ WorkerVolume
    \/ WorkerUpdate

SpecVolume == InitVolume /\ [][NextVolume]_vars

\* ----------------------------------------------------------------- claims
\* the light threads that are alive and have not been seen to stop.
Actuating ==
    [t \in {x \in BagToSet(light_threads) : x.pc \in {"top", "body"}} |->
        light_threads[t]]

WorkerStopped == worker_pc \in {"exited", "panicked"}

\* C1: at most one light thread is alive and able to actuate: a new one is
\* spawned only when the previous one has stopped.
AtMostOneScheduler == BagCardinality(Actuating) <= 1

\* C2: a prepare_song that waits on the toggle flag sees it cleared: whenever
\* the worker is in the busy-wait with the flag set, a light thread is still
\* running that will clear it (only light threads clear the flag).  Checked
\* with the stores in program order.
BusyWaitEnds ==
    (worker_pc = "wait" /\ light_thread_toggle) => light_threads # EmptyBag

\* C3: once the worker has exited on KillThread, no light thread stays
\* active: a thread still running has been told to stop.
KillStopsScheduler ==
    (worker_pc = "exited" /\ Actuating # EmptyBag) => light_thread_toggle

\* C4: a worker update that finds the player playing, not looping, the sink
\* empty and the elapsed time at 0.99 of the song's duration or more moves
\* song_index to (i + 1) mod the queue length.
EndOfTrackAdvances ==
    [][ ( /\ worker_pc = "update"
          /\ worker_pc' # "update"
          /\ audio_player.playing
          /\ ~audio_player.looping
          /\ has_current_song(audio_player)
          /\ sink_empty(audio_player)
          /\ audio_player.sink_pos * FloatScale >=
                EndPercent * get_current_song(audio_player).duration )
        => audio_player'.song_index =
              (audio_player.song_index + 1) % Len(audio_player.song_vec) ]_vars

\* C5: playing implies loaded.
PlayingImpliesLoaded == audio_player.playing => audio_player.song_loaded

\* C5 witness: playing again after a Shuffle reordered the queue.
PlayingAfterShuffle ==
    /\ audio_player.playing
    /\ audio_player.song_vec = << Song(2, 1500), Song(1, 2000) >>
    /\ worker_pc = "recv"

\* C6: between commands, song_index is a valid index of a non-empty queue.
IndexInRange ==
    (worker_pc \in {"recv", "update"} /\ audio_player.song_vec # << >>)
        => audio_player.song_index < Len(audio_player.song_vec)

\* C7: dispatching LoadFromPlaylist replaces the queue, sets song_index to 0
\* and marks the player not loaded.
LoadQueueResets ==
    [][ ( /\ worker_pc = "recv"
          /\ receiver # << >>
          /\ Head(receiver).action = "LoadFromPlaylist"
          /\ dispatched' = dispatched + 1
          /\ worker_pc' # "panicked" )
        => /\ audio_player'.song_vec = Playlists[clicked_index + 1]
           /\ audio_player'.song_index = 0
           /\ ~audio_player'.song_loaded ]_vars

\* C8: commands are dispatched in the order sent, each once (the k-th message
\* dispatched is the k-th sent, the rest are still in flight), and at most
\* one is dispatched per loop iteration.
DispatchInOrder ==
    /\ last_dispatched = dispatched
    /\ Len(receiver) = sent - dispatched
    /\ \A i \in DOMAIN receiver : receiver[i].seq = dispatched + i
    /\ tick_dispatched <= 1

\* C8 witness: two commands were dispatched while a third waited behind them.
DispatchedTwoOfThree ==
    /\ dispatched = 2
    /\ sent = 3
    /\ Len(receiver) = 1

\* C9: a poll of a closed, drained channel ends the worker loop.
ClosedChannelEndsWorker ==
    [][ ( /\ worker_pc = "recv"
          /\ worker_pc' # "recv"
          /\ ~ui_alive
          /\ receiver = << >> )
        => worker_pc' = "exited" ]_vars

\* C10: the worker loop ends only by receiving KillThread.
OnlyKillEndsWorker == WorkerStopped => killed

\* --------------------------------------------------- claims: light threads
Threads == BagToSet(light_threads)

\* the channels a light thread drives.
\* a pass that found the reset flag set started its firing loop with every
\* cursor at 0 and called "Off" for every channel before any "On" for it.
RewoundAndSwept(t) ==
    t.tick.reset =>
        /\ \A g \in DOMAIN t.tick.from : t.tick.from[g] = 0
        /\ \A g \in DOMAIN t.light_data :
              \A k \in DOMAIN t.light_data[g].channels :
                 \E i \in DOMAIN t.tick.acts :
                    /\ t.tick.acts[i].channel = t.light_data[g].channels[k]
                    /\ t.tick.acts[i].light_type = "Off"
                    /\ \A j \in 1..i :
                          t.tick.acts[j].channel = t.tick.acts[i].channel
                             => t.tick.acts[j].light_type = "Off"

\* C11: a seek to zero sets the reset flag; the flag is cleared only by a
\* pass of a light thread that rewinds every cursor to 0 and sends "Off" to
\* every channel before it fires any "On" for that channel.
ResetRewindsAndSweeps ==
    /\ [](\A t \in Threads : RewoundAndSwept(t))
    /\ [][ /\ (light_thread_reset /\ ~light_thread_reset')
               => \E t \in BagToSet(light_threads') : t.tick.reset
           /\ (worker_action = "Rewind" /\ worker_pc # "update"
                  /\ worker_pc' = "update")
               => (light_thread_reset' /\ audio_player'.millisecond_position = 0)
         ]_vars

\* C11 witness: a light thread whose cursor had advanced found the reset
\* flag, swept, and fired the first event again.
RewoundAndRefired ==
    \E t \in Threads :
        /\ t.tick.reset
        /\ t.tick.before[1] > 0
        /\ \E i \in DOMAIN t.tick.acts : t.tick.acts[i].light_type = "On"

\* C12: at the end of a pass, the event at the cursor of every channel
\* entry (if any) has a timestamp strictly greater than the position the
\* pass read: every due event was fired.
DrainsDueEvents ==
    \A t \in Threads :
        t.tick # NoTick =>
            \A g \in DOMAIN t.light_data :
                LET channel_data == t.light_data[g] IN
                channel_data.index < Len(channel_data.data)
                    => channel_data.data[channel_data.index + 1].timestamp
                          > t.tick.position

\* the calls a channel entry asks for, for its first n events: each event
\* once, in the order of the timestamps, on every channel, with its type.
RECURSIVE Expected(_, _, _)
Expected(channel_data, g, n) ==
    IF n = 0 THEN << >>
    ELSE Expected(channel_data, g, n - 1)
         \o [k \in DOMAIN channel_data.channels |->
                Actuation(channel_data.channels[k],
                          channel_data.data[n].light_type, g,
                          channel_data.data[n].timestamp)]

\* C13: in one run of a light thread without a reset, the calls made for
\* a channel entry are those of the events up to its cursor, each exactly
\* once, in ascending order of timestamp, on every channel of the entry and
\* with the type of the event; and a pass fires the event at the cursor
\* whose timestamp the position it read has reached.
FiredExactlyOnce ==
    \A t \in Threads :
        /\ \A g \in DOMAIN t.light_data :
              /\ SelectSeq(t.log, LAMBDA a : a.group = g)
                    = Expected(t.light_data[g], g, t.light_data[g].index)
              /\ \A i, j \in 1..Len(t.light_data[g].data) :
                    i < j => t.light_data[g].data[i].timestamp
                                <= t.light_data[g].data[j].timestamp
        /\ t.tick # NoTick =>
              \A g \in DOMAIN t.tick.from :
                 LET data == t.light_data[g].data
                     n == t.tick.from[g] + 1
                 IN (n <= Len(data) /\ data[n].timestamp <= t.tick.position)
                       => \E i \in DOMAIN t.tick.acts :
                             /\ t.tick.acts[i].group = g
                             /\ t.tick.acts[i].timestamp = data[n].timestamp

\* C13 witness: a light thread fired every event of its file: three events
\* on channels 1 and 2, one on channel 3.
FiredWholeFile ==
    \E t \in Threads :
        /\ Len(t.log) = 7
        /\ \A g \in DOMAIN t.light_data :
              t.light_data[g].index = Len(t.light_data[g].data)

\* C14: every call a pass makes for an event has a timestamp that the
\* position the pass read has reached, and the position a pass reads is the
\* published millisecond_position.
NeverEarly ==
    /\ [](\A t \in Threads :
            \A i \in DOMAIN t.tick.acts :
               t.tick.acts[i].group # 0
                  => t.tick.acts[i].timestamp <= t.tick.position)
    /\ [][ \A t \in BagToSet(light_threads') :
              (t.tick # NoTick /\ ~BagIn(t, light_threads))
                 => t.tick.position = audio_player.millisecond_position ]_vars

\* C14 witness: the event of timestamp 1000 was fired by a pass that read
\* the position 1000.
FiredOnTime ==
    \E t \in Threads :
        /\ t.tick.position = 1000
        /\ \E i \in DOMAIN t.tick.acts : t.tick.acts[i].timestamp = 1000

\* the worker is in start_light_thread past the test of line 36.
Arming == worker_pc \in {"wait", "arm", "spawn"}

\* C15: while the song being prepared has no light file, gathering its
\* light data does not panic, the worker does not enter the wait of
\* start_light_thread, active is not set and no light thread is spawned.
NoFileNeverArms ==
    [][ worker_song \notin DOMAIN LightFiles =>
          /\ ~Arming'
          /\ worker_pc \in {"kill", "kill_store"} => worker_pc' # "panicked"
          /\ ~(light_thread_active' /\ ~light_thread_active)
          /\ BagCardinality(light_threads') <= BagCardinality(light_threads)
      ]_vars

\* C15 witness: song 2, which has no light file, was prepared: the worker
\* is back from start_light_thread with active unset and no light thread.
PreparedWithoutLights ==
    /\ worker_pc = "resume"
    /\ worker_song = 2
    /\ ~light_thread_active
    /\ light_threads = EmptyBag

\* the light files that are not of the expected shape or hold a timestamp
\* that is not a number.
Malformed == {4, 5}

\* C16: gathering a malformed light file yields no light data, empty or
\* partial: the load panics, and the worker preparing such a song never
\* gets to wait, arm or spawn, nor back to its caller.
MalformedFileFails ==
    /\ \A p \in Malformed : ~gather_light_data(p).ok
    /\ worker_song \in Malformed => worker_pc \in {"kill", "kill_store", "panicked"}
    /\ \A t \in Threads :
          \A p \in Malformed :
             \A i \in DOMAIN LightFiles[p].fields :
                \A g \in DOMAIN t.light_data :
                   t.light_data[g].channels # parse_channels(LightFiles[p].fields[i].key)

\* C16 witness: the worker panicked while preparing song 4.
PanickedOnMalformedFile ==
    /\ worker_pc = "panicked"
    /\ worker_song = 4

\* one light thread less / more in state t after the step.
Left(t) == CopiesIn(t, light_threads') < CopiesIn(t, light_threads)

Arrived(t) == CopiesIn(t, light_threads') > CopiesIn(t, light_threads)

\* C17: a light thread that loads toggle = true at the top of its loop
\* leaves the loop; from then on it makes no call of the actuator (its
\* light_data and its calls stay as they were), stores active = false and
\* toggle = false, and ends; a pass through the body is never cut short
\* (a thread in the body always completes the pass and returns to the top).
CooperativeCancel ==
    [][ /\ \A t \in At("top") :
              (light_thread_toggle /\ Left(t))
                 => Arrived([t EXCEPT !.pc = "deactivate", !.tick = NoTick])
        /\ \A t \in At("body") :
              Left(t) => \E u \in BagToSet(light_threads') :
                            /\ Arrived(u)
                            /\ u.pc = "top"
                            /\ u.tick # NoTick
        /\ \A t \in At("deactivate") :
              Left(t) => \/ /\ Arrived([t EXCEPT !.pc = "untoggle"])
                            /\ ~light_thread_active'
                         \/ /\ Arrived([t EXCEPT !.pc = "deactivate_late"])
                            /\ ~light_thread_toggle'
        /\ \A t \in At("untoggle") \cup At("deactivate_late") :
              Left(t) =>
                 /\ BagCardinality(light_threads')
                       = BagCardinality(light_threads) - 1
                 /\ t.pc = "untoggle" => ~light_thread_toggle'
                 /\ t.pc = "deactivate_late" => ~light_thread_active'
      ]_vars

\* C17 witness: a light thread that had fired events saw the stop request
\* and has stored active = false.
StoppedAfterFiring ==
    \E t \in Threads :
        /\ t.pc = "untoggle"
        /\ t.log # << >>
        /\ ~light_thread_active

\* C18: toggle is never left true in a state where no light thread is
\* alive to consume it.
ToggleNeverStale == light_thread_toggle => light_threads # EmptyBag

\* --------------------------------------------------------- claims: player
\* the step calls next_song: the Skip command, or the end of a song that is
\* not looping.
NextSongCalled ==
    \/ /\ worker_pc = "recv"
       /\ dispatched' = dispatched + 1
       /\ worker_action' = "Skip"
    \/ /\ worker_pc = "update"
       /\ worker_pc' \in {"kill", "panicked"}
       /\ ~audio_player.looping

\* the worker is inside prepare_song, between kill_light_thread and the
\* return of start_light_thread.
Preparing == worker_pc \in {"kill", "kill_store", "wait", "arm", "spawn", "resume"}

\* C19: next_song on a non-empty queue of length n at index i sets
\* song_index to (i + 1) mod n and prepares that song (loaded was cleared:
\* play() goes through prepare_song, which loads the sink with the new
\* song); nothing changes the index or the queue until prepare_song
\* returns, and the call ends with playing = true and the song loaded.
NextSongWraps ==
    [][ /\ (NextSongCalled /\ audio_player.song_vec # << >>) =>
              LET n == Len(audio_player.song_vec)
                  new_index == (audio_player.song_index + 1) % n
              IN /\ audio_player'.song_index = new_index
                 /\ audio_player'.song_vec = audio_player.song_vec
                 /\ worker_pc' = "kill"
                 /\ worker_song' = audio_player.song_vec[new_index + 1].path
                 /\ audio_player'.sink_len =
                       audio_player.song_vec[new_index + 1].duration
                 /\ audio_player'.sink_pos = 0
                 /\ audio_player'.millisecond_position = 0
                 /\ audio_player'.song_loaded
        /\ (Preparing /\ worker_pc' # "panicked") =>
              /\ audio_player'.song_index = audio_player.song_index
              /\ audio_player'.song_vec = audio_player.song_vec
              /\ audio_player'.song_loaded
        /\ (worker_pc = "resume" /\ worker_pc' # "resume") =>
              /\ audio_player'.playing
              /\ ~audio_player'.sink_paused
      ]_vars

\* C19 witness: Skip from the last position of a queue of two went back to
\* index 0 and the player is playing.
SkippedToFirst ==
    /\ worker_action = "Skip"
    /\ worker_pc = "update"
    /\ Len(audio_player.song_vec) = 2
    /\ audio_player.song_index = 0
    /\ audio_player.playing

\* C20: Play received while loaded and playing changes nothing: the
\* player (queue, index, loaded, looping, positions, sink), the lifecycle
\* flags and the light threads stay as they were, playing stays true and
\* prepare_song is not entered.
PlayIdempotent ==
    [][ ( /\ worker_pc = "recv"
          /\ dispatched' = dispatched + 1
          /\ worker_action' = "Play"
          /\ audio_player.song_loaded
          /\ audio_player.playing )
        => /\ audio_player' = audio_player
           /\ audio_player'.playing
           /\ UNCHANGED << light_thread_active, light_thread_toggle,
                           light_thread_reset, light_threads >>
           /\ worker_pc' = after_dispatch ]_vars

\* C20 witness: Play was the third command, received while the song
\* started by the second was playing (no command in between could pause
\* it), and it did not prepare the song again (the published position is
\* not 0).
PlayedWhilePlaying ==
    /\ worker_action = "Play"
    /\ worker_pc = "update"
    /\ dispatched = 3
    /\ audio_player.playing
    /\ audio_player.millisecond_position > 0

\* ------------------------------------------------- claims: transport, cont.
\* the worker tick detects the end of the song while looping is set.
LoopReplayDetected ==
    /\ worker_pc = "update"
    /\ audio_player.playing
    /\ audio_player.looping
    /\ song_finished(update_position(audio_player))
    /\ has_current_song(audio_player)

\* the worker is inside the prepare_song of a loop replay.
LoopReplaying == Preparing /\ worker_ret = "tick" /\ audio_player.looping

\* C21: when the end of the song is detected with looping set, the worker
\* prepares the same song again: song_index is unchanged, the published
\* millisecond position is 0, playing stays true throughout, and at the
\* spawn of the new light thread no light thread of an earlier prepare is
\* still actuating and the new thread has every cursor at 0.
LoopReplays ==
    [][ /\ (LoopReplayDetected /\ worker_pc' # "update") =>
              /\ audio_player'.song_index = audio_player.song_index
              /\ audio_player'.millisecond_position = 0
              /\ audio_player'.playing
              /\ worker_pc' = "kill"
              /\ worker_song' = get_current_song(audio_player).path
        /\ (LoopReplaying /\ worker_pc' # "panicked") =>
              /\ audio_player'.song_index = audio_player.song_index
              /\ audio_player'.millisecond_position = 0
              /\ audio_player'.playing
        /\ (LoopReplaying /\ worker_pc = "spawn" /\ worker_pc' = "resume") =>
              /\ Actuating = EmptyBag
              /\ \E t \in BagToSet(light_threads') :
                    /\ light_threads' = light_threads (+) SetToBag({t})
                    /\ t.pc = "top"
                    /\ \A g \in DOMAIN t.light_data : t.light_data[g].index = 0
      ]_vars

\* a loop replay went through: the worker is back from the prepare_song of
\* a tick with looping set, and a light thread is running.
LoopReplayed ==
    /\ worker_pc = "resume"
    /\ worker_ret = "tick"
    /\ audio_player.looping
    /\ Actuating # EmptyBag

\* the step receives the command `a`.
Dispatches(a) ==
    /\ worker_pc = "recv"
    /\ dispatched' = dispatched + 1
    /\ worker_action' = a

\* C22: set_position(t) publishes millisecond_position = t itself, before the
\* worker's next position update, and sets the reset request exactly when t
\* is zero.  For every player state reached and every t tried, the state after
\* set_position(t) has millisecond_position = t and the reset request is set
\* iff it was set before or t = 0; the Rewind command (t = 0) ends, in the
\* same step when the song is loaded and on return from prepare_song when it
\* is not, with millisecond_position = 0 and the reset request set.
SeekPublishes ==
    /\ [](\A t \in SeekTimes :
            LET after == set_position_tail(play_loaded(set_position(audio_player, t)), t)
            IN /\ after.millisecond_position = t
               /\ set_position_reset(light_thread_reset, t)
                     = (light_thread_reset \/ t = 0))
    /\ [][ /\ (Dispatches("Rewind") /\ audio_player.song_loaded) =>
                 /\ audio_player'.millisecond_position = RewindTime
                 /\ light_thread_reset'
                 /\ worker_pc' = after_dispatch
           /\ (Dispatches("Rewind") /\ ~audio_player.song_loaded) =>
                 /\ worker_pc' \in {"kill", "panicked"}
                 /\ worker_pc' = "kill" => worker_ret' = "seek"
           /\ (worker_pc = "resume" /\ worker_ret = "seek" /\ worker_pc' # "resume") =>
                 /\ audio_player'.millisecond_position = RewindTime
                 /\ light_thread_reset'
                 /\ worker_pc' = after_dispatch
         ]_vars

\* C22 witness: Rewind was received while the song was under way (a light
\* thread has moved a cursor): the published position is 0 and the reset
\* request is set, before the position update of this iteration.
SoughtToStart ==
    /\ worker_action = "Rewind"
    /\ worker_pc = "update"
    /\ audio_player.song_loaded
    /\ audio_player.millisecond_position = 0
    /\ audio_player.sink_pos = 0
    /\ light_thread_reset
    /\ \E t \in Threads : \E g \in DOMAIN t.light_data : t.light_data[g].index > 0

\* the songs of a queue, with their multiplicities.
BagOfSongs(song_vec) ==
    [x \in Range(song_vec) |-> Cardinality({i \in DOMAIN song_vec : song_vec[i] = x})]

\* the worker is inside the prepare_song of the command `a`.
PreparingFor(a) == Preparing /\ worker_action = a /\ worker_ret = "cmd"

\* the light threads started by earlier prepare_song calls are stopped or
\* have been asked to stop: with a light file for the new song only the
\* thread just spawned is actuating, without one any thread still actuating
\* has the stop request pending.
EarlierSchedulersStopped ==
    IF gather_light_data(worker_song).data # << >>
    THEN BagCardinality(Actuating) <= 1
    ELSE Actuating # EmptyBag => light_thread_toggle

\* C23: shuffle leaves the queue a permutation of the songs it held, sets
\* song_index to 0 and plays the song now at index 0 from its start through
\* prepare_song (loaded was cleared); the queue and the index stay so until
\* it returns, and on return playing is true and the light thread of the
\* song that was playing is stopped or asked to stop.
ShuffleRestarts ==
    [][ /\ (Dispatches("Shuffle") /\ audio_player.song_vec # << >>) =>
              /\ BagOfSongs(audio_player'.song_vec) = BagOfSongs(audio_player.song_vec)
              /\ Len(audio_player'.song_vec) = Len(audio_player.song_vec)
              /\ audio_player'.song_index = 0
              /\ worker_pc' = "kill"
              /\ worker_song' = audio_player'.song_vec[1].path
              /\ audio_player'.sink_len = audio_player'.song_vec[1].duration
              /\ audio_player'.sink_pos = 0
              /\ audio_player'.millisecond_position = 0
        /\ (PreparingFor("Shuffle") /\ worker_pc' # "panicked") =>
              /\ audio_player'.song_vec = audio_player.song_vec
              /\ audio_player'.song_index = 0
        /\ (PreparingFor("Shuffle") /\ worker_pc = "resume" /\ worker_pc' # "resume") =>
              /\ audio_player'.playing
              /\ ~audio_player'.sink_paused
              /\ EarlierSchedulersStopped
      ]_vars

\* shuffle returned with the queue in the other order and the player playing.
ShuffledAndPlaying ==
    /\ worker_action = "Shuffle"
    /\ worker_pc = "update"
    /\ audio_player.song_vec = << Song(2, 1500), Song(1, 2000) >>
    /\ audio_player.song_index = 0
    /\ audio_player.playing

\* the songs of every playlist on disk.
AllSongs == UNION {Range(Playlists[i]) : i \in DOMAIN Playlists}

\* the positions (from 0) of the songs of the queue with the path of `song`.
PositionsOf(ap, song) ==
    {i - 1 : i \in {j \in DOMAIN ap.song_vec : ap.song_vec[j].path = song.path}}

\* C24: song_override(song) sets song_index to the position in the queue of
\* the song with the path of `song`, clears loaded and plays (through
\* prepare_song, with that song); with no such song in the queue it fails
\* fatally and song_index is as before.  Checked on every player state
\* reached, for every song on disk, and on the SongOverride command.
OverrideSetsIndex ==
    /\ [](\A song \in AllSongs :
            LET r == try_song_override(audio_player, song) IN
            IF PositionsOf(audio_player, song) = {}
            THEN /\ ~r.ok
                 /\ r.ap.song_index = audio_player.song_index
            ELSE /\ r.ok
                 /\ r.ap.song_index \in PositionsOf(audio_player, song)
                 /\ ~r.ap.song_loaded
                 /\ r.ap.song_vec = audio_player.song_vec)
    /\ [][ (Dispatches("SongOverride") /\ clicked_index < Len(audio_player.song_vec)) =>
              /\ audio_player'.song_index = clicked_index
              /\ audio_player'.song_vec = audio_player.song_vec
              /\ worker_pc' = "kill"
              /\ worker_song' = audio_player.song_vec[clicked_index + 1].path
              /\ audio_player'.sink_len = audio_player.song_vec[clicked_index + 1].duration
              /\ audio_player'.sink_pos = 0
         ]_vars

\* C24 witness: SongOverride of the second row of a queue of two, received
\* with the first song current, ended with song_index = 1 and the player
\* playing.
OverrodeToSecond ==
    /\ worker_action = "SongOverride"
    /\ worker_pc = "update"
    /\ Len(audio_player.song_vec) = 2
    /\ audio_player.song_index = 1
    /\ audio_player.playing
    /\ audio_player.sink_len = audio_player.song_vec[2].duration

\* ------------------------------------------------------ claims: publishing
\* C25: a UI read of the published position fields (elapsed, duration,
\* progress) is never held up by the worker: whenever the UI is running and
\* not waiting for a snapshot, the read can be taken.
ReadersNeverBlock == (ui_alive /\ ~UIBlocked) => ENABLED UIRead

\* C26: every RequestSongVec received puts exactly one message on the
\* snapshot channel, the queue as it is at that moment; no other step of
\* the worker, a Shuffle or a LoadFromPlaylist included, adds to or alters
\* the messages in flight, and the UI receives the vector that was sent.
SnapshotPerRequest ==
    [][ /\ Dispatches("RequestSongVec") =>
              /\ song_vec_channel' = Append(song_vec_channel, audio_player.song_vec)
              /\ worker_pc' = after_dispatch
        /\ (\E a \in Actions \ {"RequestSongVec"} : Dispatches(a)) =>
              UNCHANGED << song_vec_channel, song_vec_cache >>
        /\ ~Dispatches("RequestSongVec") =>
              \/ UNCHANGED song_vec_channel
              \/ /\ song_vec_channel # << >>
                 /\ song_vec_channel' = Tail(song_vec_channel)
                 /\ song_vec_cache' = Cached(Head(song_vec_channel))
      ]_vars

\* C26 witness: the UI holds the snapshot of a queue that was shuffled into
\* the other order before the request was received.
SnapshotOfShuffled ==
    /\ song_vec_cache = Cached(<< Song(2, 1500), Song(1, 2000) >>)
    /\ song_vec_channel = << >>
    /\ audio_player.song_vec = << Song(2, 1500), Song(1, 2000) >>

\* C27: whatever the volume cell holds when the Volume command is received,
\* the volume applied to the sink lies in [0.0, 1.0] (0..FloatScale in
\* hundredths).
VolumeClamped == audio_player.sink_volume \in 0..FloatScale

\* C28: Pause sets playing = false (and pauses the sink) and changes nothing
\* else: the published millisecond position, song_index, the queue, loaded,
\* looping, the lifecycle flags and the light threads with their cursors are
\* as before; a Play received while the song is loaded and paused resumes
\* the sink where it was, without prepare_song.
PauseOnlyPauses ==
    [][ /\ Dispatches("Pause") =>
              /\ audio_player' = [audio_player EXCEPT !.playing = FALSE,
                                                      !.sink_paused = TRUE]
              /\ UNCHANGED lights
              /\ worker_pc' = after_dispatch
        /\ (Dispatches("Play") /\ audio_player.song_loaded /\ ~audio_player.playing) =>
              /\ audio_player' = [audio_player EXCEPT !.playing = TRUE,
                                                      !.sink_paused = FALSE]
              /\ UNCHANGED lights
              /\ worker_pc' = after_dispatch
      ]_vars

\* C28 witness: Play resumed a song that had been paused under way: the
\* sink is running from a position after the start, the published position
\* and a cursor of the light thread are where the pause left them.
ResumedAfterPause ==
    /\ worker_action = "Play"
    /\ worker_pc = "update"
    /\ dispatched = MaxCmds + 1
    /\ audio_player.playing
    /\ ~audio_player.sink_paused
    /\ audio_player.sink_pos > 0
    /\ audio_player.millisecond_position > 0
    /\ \E t \in Threads : \E g \in DOMAIN t.light_data : t.light_data[g].index > 0

\* track durations (ms) the position update is tried with, zero and
\* durations that are not whole seconds or whole hundredths included.
TrackDurations == {0, 4, 999, 1000, 1500, 1999, 2000, 2005}

\* positions the sink can report for a track of duration d.
SinkPositions(d) == {0, d \div 2, d} \cup {p \in {999, 1000, 1999, 2000} : p <= d}

\* the player with a track of duration d prepared and the sink at pos.
PlayerAt(d, pos) ==
    [AudioPlayerNew EXCEPT !.song_duration = set_atomic_float(d, MsPerSecond),
                           !.sink_len = d,
                           !.sink_pos = pos,
                           !.playing = TRUE]

\* C29: the progress published by a tick lies in [0, 1] (0..FloatScale in
\* hundredths): in every state reached, and for every track duration tried
\* (zero included) at every position of the sink within the track.
ProgressInRange ==
    /\ audio_player.progress \in 0..FloatScale
    /\ \A d \in TrackDurations : \A pos \in SinkPositions(d) :
          update_position(PlayerAt(d, pos)).progress \in 0..FloatScale

\* C29 witness: a tick published progress 1.0 at the end of a song and went
\* on to the next one.
ProgressReachedOne ==
    /\ audio_player.progress = FloatScale
    /\ Preparing
    /\ worker_ret = "tick"

\* ------------------------------------------------------ claims: light files
\* the timestamp maps a channel entry of a well-formed light file is tried
\* with: every subset of three entries.
EntrySets == SUBSET {<<Tok(1000), 1>>, <<Tok(0), 1>>, <<Tok(500), 0>>}

\* the event list `data` is in ascending order of timestamp.
Ascending(data) ==
    \A i, j \in DOMAIN data : i < j => data[i].timestamp <= data[j].timestamp

\* the event list `data` holds one event per entry of `entries`, with the
\* timestamp and the light type of that entry.
OnePerEntry(data, entries) ==
    /\ Len(data) = Cardinality(entries)
    /\ \A e \in entries :
          Cardinality({i \in DOMAIN data :
                          data[i] = LightData(e[1].n, light_type_of(e[2]))}) = 1

\* C30: for every well-formed light file, the event list loaded for each of
\* its channel entries is in ascending order of timestamp and holds exactly
\* one event per timestamp entry.  The entries of a JSON object reach
\* gather_light_data as a map, in no particular order.  Checked on the maps
\* tried, on the well-formed files on disk, and on every light thread
\* spawned.
SortedOnePerEntry ==
    /\ \A entries \in EntrySets :
          LET channel_data == ChannelData(Field(<<Tok(1)>>, entries))
          IN /\ Ascending(channel_data.data)
             /\ OnePerEntry(channel_data.data, entries)
    /\ \A path \in DOMAIN SongPaths :
          \A f \in open(path_string(path)) \ Malformed :
             LET gathered == gather_light_data(path) IN
             /\ gathered.ok
             /\ Len(gathered.data) = Len(LightFiles[f].fields)
             /\ \A g \in DOMAIN gathered.data :
                   /\ Ascending(gathered.data[g].data)
                   /\ OnePerEntry(gathered.data[g].data, LightFiles[f].fields[g].entries)
    /\ \A t \in Threads : \A g \in DOMAIN t.light_data :
          Ascending(t.light_data[g].data)

\* C30 witness: a light thread runs on the three events of the first channel
\* entry of file 1, loaded in the order 0, 500, 1000.
LoadedInOrder ==
    \E t \in Threads :
        /\ Len(t.light_data[1].data) = 3
        /\ t.light_data[1].data[1].timestamp = 0
        /\ t.light_data[1].data[2].timestamp = 500
        /\ t.light_data[1].data[3].timestamp = 1000

\* ---------------------------------------------------- claims: cursors, cont.
\* the events of channel entry g that the calls `acts` come from.
EventsFired(acts, g) ==
    {acts[k].timestamp : k \in {i \in DOMAIN acts : acts[i].group = g}}

\* C31: a cursor is monotonic between resets.  In the pass a light thread
\* has just made, the firing loop started from the cursor it found, or from 0
\* when it took a reset request; the cursor it leaves is not behind the
\* one it started from, is ahead of it by at most the number of events of
\* that entry it fired, and is never past the end of the entry's event list.
CursorMonotonic ==
    \A t \in Threads :
        /\ \A g \in DOMAIN t.light_data :
              t.light_data[g].index \in 0..Len(t.light_data[g].data)
        /\ t.tick # NoTick =>
              \A g \in DOMAIN t.tick.light_data :
                 /\ t.tick.from[g] = IF t.tick.reset THEN 0 ELSE t.tick.before[g]
                 /\ t.tick.light_data[g].index >= t.tick.from[g]
                 /\ t.tick.light_data[g].index - t.tick.from[g]
                       <= Cardinality(EventsFired(t.tick.acts, g))
                 /\ t.light_data[g].index = t.tick.light_data[g].index

\* C31 witness: a pass took a reset request with the first cursor at the end
\* of its list (3 events), started again from 0 and left the cursor at 1.
CursorResetFromEnd ==
    \E t \in Threads :
        /\ t.tick # NoTick
        /\ t.tick.reset
        /\ t.tick.before[1] = 3
        /\ t.tick.from[1] = 0
        /\ t.light_data[1].index = 1

\* ------------------------------------------------------- claims: cue path
\* the path with its last piece, the extension, replaced.
with_extension(path, extension) == [path EXCEPT ![Len(path)] = extension]

\* C32: the cue file path is the track's media path with only the final
\* extension replaced by the cue extension: for the track the worker
\* prepares, the path gather_light_data opens is the track's path with json
\* for its extension and every other piece as it was, and a cue file lying
\* next to the track is the file opened.
CuePathKeepsRest ==
    worker_song \in DOMAIN SongPaths =>
        /\ path_string(worker_song) = with_extension(SongPaths[worker_song], "json")
        /\ worker_song \in DOMAIN LightFiles => open(path_string(worker_song)) = {worker_song}

\* C32, the failing case: the song in the directory "wav" is prepared and
\* the worker is back from start_light_thread without a light thread,
\* although its cue file is on disk and well formed.
WavDirectoryPrepared ==
    /\ worker_pc = "resume"
    /\ worker_song = 3
    /\ light_threads = EmptyBag

\* --------------------------------------------------------- claims: Reset
\* C33: a Reset command is consumed by the worker and resets the audio
\* thread's data: right after its dispatch playback is stopped, no track is
\* loaded and the published position is zero.
ResetResets ==
    [][ Dispatches("Reset") =>
          /\ receiver' = Tail(receiver)
          /\ ~audio_player'.playing
          /\ ~audio_player'.song_loaded
          /\ audio_player'.millisecond_position = 0
      ]_vars

\* C33, the failing case: a Reset was dispatched and the player is still
\* playing a loaded track, past its start.
PlayingAfterReset ==
    /\ worker_action = "Reset"
    /\ worker_pc = "update"
    /\ audio_player.playing
    /\ audio_player.song_loaded

\* ------------------------------------------------- claims: index validity
\* C34: every value of song_index a concurrent reader can observe is a valid
\* index: in a step that runs next_song on a non-empty queue, the cell ends
\* at the last value stored and every value stored to it, which a UI frame
\* loading the cell without the lock may read, is below the length of the
\* queue and of the snapshot the UI holds.
ObservedIndexValid ==
    [][ (NextSongCalled /\ audio_player.song_vec # << >>) =>
          LET stores == next_song_stores(audio_player) IN
          /\ audio_player'.song_index = stores[Len(stores)]
          /\ \A k \in DOMAIN stores :
                /\ stores[k] < Len(audio_player.song_vec)
                /\ song_vec_cache.state = "some" => stores[k] < Len(song_vec_cache.vec)
      ]_vars

\* --------------------------------------------- claims: command arguments
\* C35: every SongOverride, LoadFromPlaylist and Volume command is executed
\* with the selection or volume that was current when the UI sent it: the
\* playlist loaded, the song made current and the volume applied are those
\* of the cell's value at the send, whatever was written to the cell since.
ArgumentsCaptured ==
    [][ /\ Dispatches("LoadFromPlaylist") =>
              audio_player'.song_vec = Playlists[Head(receiver).sel + 1]
        /\ (Dispatches("SongOverride")
               /\ Head(receiver).sel < Len(audio_player.song_vec)) =>
              /\ audio_player'.song_index < Len(audio_player.song_vec)
              /\ audio_player.song_vec[audio_player'.song_index + 1]
                    = audio_player.song_vec[Head(receiver).sel + 1]
        /\ Dispatches("Volume") =>
              audio_player'.sink_volume = Head(receiver).vol
      ]_vars

LogOf(t, g) == SelectSeq(t.log, LAMBDA a : a.group = g)

\* the log of t for entry g is the events before the cursor, each fired
\* once on every channel of the entry, in the order of the list.
FiredUpToCursor(t, g) ==
    LET channels == Len(t.light_data[g].channels)
        calls == LogOf(t, g)
    IN /\ Len(calls) = t.light_data[g].index * channels
       /\ \A k \in DOMAIN calls :
             calls[k].timestamp
                = t.light_data[g].data[((k - 1) \div channels) + 1].timestamp

OneTransitionPerEnd ==
    [][ /\ (worker_pc = "update" /\ worker_pc' = "recv") =>
              /\ audio_player'.song_index = audio_player.song_index
              /\ audio_player'.song_vec = audio_player.song_vec
        /\ (worker_pc = "update" /\ worker_pc' = "kill") =>
              /\ audio_player.playing
              /\ sink_empty(audio_player)
              /\ audio_player'.song_index =
                    IF audio_player.looping THEN audio_player.song_index
                    ELSE (audio_player.song_index + 1) % Len(audio_player.song_vec)
              /\ audio_player'.sink_pos = 0
              /\ ~sink_empty(audio_player')
              /\ ~song_finished(update_position(audio_player'))
        /\ (Preparing /\ worker_ret = "tick" /\ worker_pc' # "panicked") =>
              /\ audio_player'.song_index = audio_player.song_index
              /\ audio_player'.sink_pos = 0
              /\ ~sink_empty(audio_player')
      ]_vars

\* C38 witness: the first song ended and the second was prepared by the
\* tick (only LoadFromPlaylist and Play were sent), and a later tick has
\* published position 1000 of the second song without another transition.
PlayingSecondAfterEnd ==
    /\ worker_pc = "recv"
    /\ sent = 2
    /\ dispatched = 2
    /\ audio_player.song_index = 1
    /\ audio_player.sink_len = 1500
    /\ audio_player.millisecond_position = 1000
    /\ audio_player.playing

\* ---------------------------------------------------- claims: idle ticks
\* C39: a tick of the worker in which playing is false leaves the published
\* position (millisecond_position, song_duration, progress), song_index
\* and the rest of the player unchanged and does not go into the handling
\* of the end of a song, whatever the values held.
IdleTickChangesNothing ==
    [][ (worker_pc = "update" /\ worker_pc' # "update" /\ ~audio_player.playing) =>
          /\ audio_player' = audio_player
          /\ worker_pc' = "recv"
          /\ UNCHANGED << light_thread_reset, light_threads >>
      ]_vars

\* C39 witness: the player was paused with the sink a second ahead of the
\* published position, and the tick after the Pause has run: the published
\* position is still 0.
TickedWhilePaused ==
    /\ worker_pc = "recv"
    /\ worker_action = "none"
    /\ dispatched = 3
    /\ receiver = << >>
    /\ ~audio_player.playing
    /\ audio_player.song_loaded
    /\ audio_player.sink_pos = 1000
    /\ audio_player.millisecond_position = 0
====
